---- MODULE Spec2Model ----
(***************************************************************************)
(* logpipe: a line-oriented pretty-printer for JSON logs (src/main.go).    *)
(*                                                                         *)
(* A Go string is modelled as what it is: a sequence of bytes.  An ASCII   *)
(* byte is written as the one-character string of its character; the two   *)
(* bytes of the UTF-8 encoding of U+00E9 are written "xC3" and "xA9".      *)
(* len() and s[:n] count bytes, the %-4s verb of package fmt pads by the   *)
(* number of runes.                                                        *)
(***************************************************************************)
EXTENDS Integers, Sequences, FiniteSets

VARIABLES pc, consumed, scanErr, tooLong, stdout, stderr, exitCode, logEntry

vars == <<pc, consumed, scanErr, tooLong, stdout, stderr, exitCode, logEntry>>

(***************************************************************************)
(* Bounds of the model.                                                    *)
(***************************************************************************)
\* the longest input stream the read loop is fed
MaxLines == 2

(***************************************************************************)
(* Program constants.                                                      *)
(***************************************************************************)
\* src/main.go:127  if len(line) > 120
LineLimit == 120
\* src/main.go:164  if len(userAgent) > 50
UserAgentLimit == 50
\* src/main.go:169  log.Level[:min(4, len(log.Level))] and "%-4s"
LevelWidth == 4
\* src/main.go:170  "%-4s" of the method
MethodWidth == 4
\* src/main.go:173  log.Event.Duration/1000000
NanosPerMilli == 1000000
\* src/main.go:404  log.Event.Duration/1000 (the alternate copy)
AltDurationDivisor == 1000
\* src/main.go:399  "%-5s" of the level (the alternate copy)
AltLevelWidth == 5
\* src/main.go:119  bufio.NewScanner: the buffer holds bufio.MaxScanTokenSize
\* (64 * 1024) bytes, and a line of that many bytes or more is refused
MaxScanTokenSize == 65536

(***************************************************************************)
(* Bytes and strings.                                                      *)
(***************************************************************************)
Min(a, b) == IF a < b THEN a ELSE b

\* s[:n] of Go, for 0 <= n <= len(s)
Take(s, n) == SubSeq(s, 1, n)

\* strings.Repeat for a one-byte (or one-rune) pattern
Repeat(pat, n) == IF n <= 0 THEN <<>> ELSE [i \in 1..(n * Len(pat)) |-> pat[((i - 1) % Len(pat)) + 1]]

\* the byte that opens a two-byte UTF-8 sequence, and its continuation byte
IsLeadByte(b) == b = "xC3"

IsContinuationByte(b) == b = "xA9"

\* utf8.RuneCountInString: a continuation byte right after a lead byte
\* belongs to the lead's rune, every other byte starts a rune of its own
\* (an invalid byte counts as one rune of width 1)
RuneCountInString(s) ==
    Cardinality({i \in 1..Len(s) :
        ~(IsContinuationByte(s[i]) /\ i > 1 /\ IsLeadByte(s[i - 1]))})

\* fmt's "%-Ns" of a string: right-padded with spaces to N runes
PadRight(s, w) == s \o Repeat(<<" ">>, w - RuneCountInString(s))

Digit(d) == <<"0", "1", "2", "3", "4", "5", "6", "7", "8", "9">>[d + 1]

RECURSIVE DecNat(_)
DecNat(n) == IF n < 10 THEN <<Digit(n)>> ELSE Append(DecNat(n \div 10), Digit(n % 10))

\* fmt's "%d"
Dec(n) == IF n < 0 THEN <<"-">> \o DecNat(-n) ELSE DecNat(n)

\* Go's integer division truncates toward zero
GoDiv(a, b) == IF a >= 0 THEN a \div b ELSE -((-a) \div b)

(***************************************************************************)
(* The JSON keys of the struct tags of LogEntry (src/main.go:21-90), as    *)
(* bytes.                                                                 *)
(***************************************************************************)
K_at_timestamp == <<"@", "t", "i", "m", "e", "s", "t", "a", "m", "p">>

K_log_level == <<"l", "o", "g", ".", "l", "e", "v", "e", "l">>

K_message == <<"m", "e", "s", "s", "a", "g", "e">>

K_category == <<"c", "a", "t", "e", "g", "o", "r", "y">>

K_error == <<"e", "r", "r", "o", "r">>

K_destination == <<"d", "e", "s", "t", "i", "n", "a", "t", "i", "o", "n">>

K_domain == <<"d", "o", "m", "a", "i", "n">>

K_event == <<"e", "v", "e", "n", "t">>

K_duration == <<"d", "u", "r", "a", "t", "i", "o", "n">>

K_http == <<"h", "t", "t", "p">>

K_request == <<"r", "e", "q", "u", "e", "s", "t">>

K_body == <<"b", "o", "d", "y">>

K_bytes == <<"b", "y", "t", "e", "s">>

K_id == <<"i", "d">>

K_method == <<"m", "e", "t", "h", "o", "d">>

K_time == <<"t", "i", "m", "e">>

K_response == <<"r", "e", "s", "p", "o", "n", "s", "e">>

K_mime_type == <<"m", "i", "m", "e", "_", "t", "y", "p", "e">>

K_status_code == <<"s", "t", "a", "t", "u", "s", "_", "c", "o", "d", "e">>

K_version == <<"v", "e", "r", "s", "i", "o", "n">>

K_log == <<"l", "o", "g">>

K_logger == <<"l", "o", "g", "g", "e", "r">>

K_original == <<"o", "r", "i", "g", "i", "n", "a", "l">>

K_origin == <<"o", "r", "i", "g", "i", "n">>

K_file == <<"f", "i", "l", "e">>

K_line == <<"l", "i", "n", "e">>

K_name == <<"n", "a", "m", "e">>

K_function == <<"f", "u", "n", "c", "t", "i", "o", "n">>

K_process == <<"p", "r", "o", "c", "e", "s", "s">>

K_pid == <<"p", "i", "d">>

K_thread == <<"t", "h", "r", "e", "a", "d">>

K_service == <<"s", "e", "r", "v", "i", "c", "e">>

K_source == <<"s", "o", "u", "r", "c", "e">>

K_ip == <<"i", "p">>

K_span == <<"s", "p", "a", "n">>

K_trace == <<"t", "r", "a", "c", "e">>

K_url == <<"u", "r", "l">>

K_path == <<"p", "a", "t", "h">>

K_path_template == <<"p", "a", "t", "h", "_", "t", "e", "m", "p", "l", "a", "t", "e">>

K_port == <<"p", "o", "r", "t">>

K_query == <<"q", "u", "e", "r", "y">>

K_scheme == <<"s", "c", "h", "e", "m", "e">>

K_user_agent == <<"u", "s", "e", "r", "_", "a", "g", "e", "n", "t">>


(***************************************************************************)
(* JSON values, as the decoder of encoding/json sees them after scanning   *)
(* a syntactically valid text.  An object keeps its members in the order   *)
(* of the text; a number remembers whether its literal is an integer that  *)
(* fits the Go integer types (200) or not (200.5, 1e3).                    *)
(***************************************************************************)
JNull == [t |-> "null"]

JBool(b) == [t |-> "bool", b |-> b]

JNum(n) == [t |-> "num", n |-> n, int |-> TRUE]

JFrac(n) == [t |-> "num", n |-> n, int |-> FALSE]

JStr(s) == [t |-> "str", s |-> s]

JArr(elems) == [t |-> "arr", a |-> elems]

JObj(members) == [t |-> "obj", kv |-> members]

\* the nil interface value
Nil == [t |-> "nil"]

(***************************************************************************)
(* The type LogEntry (src/main.go:21-90), as the decoder reflects on it:   *)
(* every field with its Go name, its JSON key and its type.                *)
(***************************************************************************)
StringType == [kind |-> "string", fields |-> {}]

IntType == [kind |-> "int", fields |-> {}]

InterfaceType == [kind |-> "interface", fields |-> {}]

StructType(fs) == [kind |-> "struct", fields |-> fs]

Field(name, key, type) == [name |-> name, key |-> key, type |-> type]

BodyType == StructType({Field("Bytes", K_bytes, IntType)})

LogEntryType ==
    StructType({
        Field("Timestamp", K_at_timestamp, StringType),
        Field("Level", K_log_level, StringType),
        Field("Message", K_message, StringType),
        Field("Category", K_category, StringType),
        Field("Error", K_error, InterfaceType),
        Field("Destination", K_destination,
              StructType({Field("Domain", K_domain, StringType)})),
        Field("Event", K_event,
              StructType({Field("Duration", K_duration, IntType)})),
        Field("HTTP", K_http, StructType({
            Field("Request", K_request, StructType({
                Field("Body", K_body, BodyType),
                Field("ID", K_id, StringType),
                Field("Method", K_method, StringType),
                Field("Time", K_time, StringType)})),
            Field("Response", K_response, StructType({
                Field("Body", K_body, BodyType),
                Field("MimeType", K_mime_type, StringType),
                Field("StatusCode", K_status_code, IntType)})),
            Field("Version", K_version, StringType)})),
        Field("Log", K_log, StructType({
            Field("Logger", K_logger, StringType),
            Field("Original", K_original, StringType),
            Field("Origin", K_origin, StructType({
                Field("File", K_file, StructType({
                    Field("Line", K_line, IntType),
                    Field("Name", K_name, StringType)})),
                Field("Function", K_function, StringType)}))})),
        Field("Process", K_process, StructType({
            Field("Name", K_name, StringType),
            Field("PID", K_pid, IntType),
            Field("Thread", K_thread, StructType({
                Field("ID", K_id, IntType),
                Field("Name", K_name, StringType)}))})),
        Field("Service", K_service,
              StructType({Field("Version", K_version, StringType)})),
        Field("Source", K_source,
              StructType({Field("IP", K_ip, StringType)})),
        Field("Span", K_span, InterfaceType),
        Field("Trace", K_trace, InterfaceType),
        Field("URL", K_url, StructType({
            Field("Domain", K_domain, StringType),
            Field("Path", K_path, StringType),
            Field("PathTemplate", K_path_template, StringType),
            Field("Port", K_port, IntType),
            Field("Query", K_query, StringType),
            Field("Scheme", K_scheme, StringType)})),
        Field("UserAgent", K_user_agent,
              StructType({Field("Original", K_original, StringType)})),
        Field("Version", K_version, StringType)})

\* the zero value of a type: what "var logEntry LogEntry" holds (src/main.go:124)
RECURSIVE ZeroValue(_)
ZeroValue(ty) ==
    CASE ty.kind = "string" -> <<>>
      [] ty.kind = "int" -> 0
      [] ty.kind = "interface" -> Nil
      [] ty.kind = "struct" ->
            [n \in {f.name : f \in ty.fields} |->
                ZeroValue((CHOOSE f \in ty.fields : f.name = n).type)]

(***************************************************************************)
(* json.Unmarshal([]byte(line), &logEntry) (src/main.go:125) on a valid    *)
(* JSON text.  null leaves the target as it is (and sets an interface to   *)
(* nil); a value whose JSON type does not match the Go type of the field   *)
(* is skipped and recorded as an UnmarshalTypeError, decoding goes on, and *)
(* the first recorded error is returned at the end; a key no field is      *)
(* tagged with is ignored.                                                 *)
(***************************************************************************)
RECURSIVE decodeValue(_, _, _)
RECURSIVE decodeObject(_, _, _)
decodeValue(v, ty, old) ==
    CASE v.t = "null" ->
            [val |-> IF ty.kind = "interface" THEN Nil ELSE old, err |-> FALSE]
      [] v.t # "null" /\ ty.kind = "interface" ->
            [val |-> v, err |-> FALSE]
      [] v.t # "null" /\ ty.kind = "string" ->
            IF v.t = "str" THEN [val |-> v.s, err |-> FALSE]
                           ELSE [val |-> old, err |-> TRUE]
      [] v.t # "null" /\ ty.kind = "int" ->
            IF v.t = "num" /\ v.int THEN [val |-> v.n, err |-> FALSE]
                                    ELSE [val |-> old, err |-> TRUE]
      [] v.t # "null" /\ ty.kind = "struct" ->
            IF v.t = "obj" THEN decodeObject(v.kv, ty, old)
                           ELSE [val |-> old, err |-> TRUE]

decodeObject(kv, ty, old) ==
    IF kv = <<>> THEN [val |-> old, err |-> FALSE]
    ELSE LET key == Head(kv)[1]
             known == {f \in ty.fields : f.key = key}
             first == IF known = {} THEN [val |-> old, err |-> FALSE]
                      ELSE LET f == CHOOSE f \in known : TRUE
                               r == decodeValue(Head(kv)[2], f.type, old[f.name])
                           IN  [val |-> [old EXCEPT ![f.name] = r.val], err |-> r.err]
             rest == decodeObject(Tail(kv), ty, first.val)
         IN  [val |-> rest.val, err |-> first.err \/ rest.err]

\* the syntax check of the whole text comes first: a text that is not valid
\* JSON is a SyntaxError and nothing is decoded
Unmarshal(line, target) ==
    IF ~line.valid THEN [val |-> target, err |-> TRUE]
    ELSE decodeValue(line.json, LogEntryType, target)

(***************************************************************************)
(* The text of a JSON value (compact, no insignificant white space): the   *)
(* bytes of an input line that carries it.                                 *)
(***************************************************************************)
\* a string literal: quotes, and the line feed escaped as \n
RECURSIVE EncodeChars(_)
EncodeChars(s) ==
    IF s = <<>> THEN <<>>
    ELSE IF Len(s) = 1 THEN (IF s[1] = "\n" THEN <<"\\", "n">> ELSE s)
    ELSE LET half == Len(s) \div 2
         IN  EncodeChars(SubSeq(s, 1, half)) \o EncodeChars(SubSeq(s, half + 1, Len(s)))

EncodeString(s) == <<"\"">> \o EncodeChars(s) \o <<"\"">>

RECURSIVE Encode(_)
RECURSIVE EncodeMembers(_)
RECURSIVE EncodeElements(_)
Encode(v) ==
    CASE v.t = "null" -> <<"n", "u", "l", "l">>
      [] v.t = "bool" -> IF v.b THEN <<"t", "r", "u", "e">> ELSE <<"f", "a", "l", "s", "e">>
      [] v.t = "num" -> IF v.int THEN Dec(v.n) ELSE Dec(v.n) \o <<".", "5">>
      [] v.t = "str" -> EncodeString(v.s)
      [] v.t = "arr" -> <<"[">> \o EncodeElements(v.a) \o <<"]">>
      [] v.t = "obj" -> <<"{">> \o EncodeMembers(v.kv) \o <<"}">>

EncodeMembers(kv) ==
    IF kv = <<>> THEN <<>>
    ELSE EncodeString(Head(kv)[1]) \o <<":">> \o Encode(Head(kv)[2])
         \o (IF Len(kv) > 1 THEN <<",">> ELSE <<>>) \o EncodeMembers(Tail(kv))

EncodeElements(a) ==
    IF a = <<>> THEN <<>>
    ELSE Encode(Head(a)) \o (IF Len(a) > 1 THEN <<",">> ELSE <<>>) \o EncodeElements(Tail(a))

\* an input line that is the text of the JSON value v
JSONLine(v) == [text |-> Encode(v), valid |-> TRUE, json |-> v]

\* an input line that is not valid JSON
TextLine(bytes) == [text |-> bytes, valid |-> FALSE, json |-> JNull]


(***************************************************************************)
(* time.Parse(time.RFC3339, s) and Time.Format (src/main.go:146, 168).     *)
(* A time is the wall clock reading the formatter prints: the reading      *)
(* written in the text, in the zone written in the text.                   *)
(***************************************************************************)
IsDigit(b) == b \in {"0", "1", "2", "3", "4", "5", "6", "7", "8", "9"}

DigitVal(b) == CHOOSE d \in 0..9 : Digit(d) = b

\* the two-digit number at s[i], s[i+1]; -1 when they are not two digits
Num2(s, i) ==
    IF i + 1 <= Len(s) /\ IsDigit(s[i]) /\ IsDigit(s[i + 1])
    THEN 10 * DigitVal(s[i]) + DigitVal(s[i + 1]) ELSE -1

IsLeapYear(y) == (y % 4 = 0 /\ y % 100 # 0) \/ y % 400 = 0

DaysIn(month, year) ==
    CASE month \in {4, 6, 9, 11} -> 30
      [] month = 2 -> IF IsLeapYear(year) THEN 29 ELSE 28
      [] OTHER -> 31

\* the number of digits of s from position i on
RECURSIVE DigitRun(_, _)
DigitRun(s, i) == IF i <= Len(s) /\ IsDigit(s[i]) THEN 1 + DigitRun(s, i + 1) ELSE 0

\* the first three digits of the fraction that starts at position i, as
\* milliseconds (a shorter fraction is padded with zeros)
FractionMillis(s, i, digits) ==
    LET d(k) == IF k < digits THEN DigitVal(s[i + k]) ELSE 0
    IN  100 * d(0) + 10 * d(1) + d(2)

\* "Z", or a sign and hh:mm
IsZone(z) ==
    \/ z = <<"Z">>
    \/ /\ Len(z) = 6
       /\ z[1] \in {"+", "-"}
       /\ z[4] = ":"
       /\ Num2(z, 2) \in 0..23
       /\ Num2(z, 5) \in 0..59

NoTime == [hour |-> 0, minute |-> 0, second |-> 0, milli |-> 0]

\* layout 2006-01-02T15:04:05Z07:00, with an optional fraction of a second
ParseRFC3339(s) ==
    LET n == Len(s)
        shape == /\ n >= 20
                 /\ \A i \in 1..4 : IsDigit(s[i])
                 /\ s[5] = "-" /\ s[8] = "-" /\ s[11] = "T"
                 /\ s[14] = ":" /\ s[17] = ":"
        year == 1000 * DigitVal(s[1]) + 100 * DigitVal(s[2])
                + 10 * DigitVal(s[3]) + DigitVal(s[4])
        hasFraction == s[20] = "."
        digits == IF hasFraction THEN DigitRun(s, 21) ELSE 0
        zoneAt == IF hasFraction THEN 21 + digits ELSE 20
        ok == /\ shape
              /\ Num2(s, 6) \in 1..12
              /\ Num2(s, 9) \in 1..DaysIn(Num2(s, 6), year)
              /\ Num2(s, 12) \in 0..23
              /\ Num2(s, 15) \in 0..59
              /\ Num2(s, 18) \in 0..59
              /\ hasFraction => digits >= 1
              /\ IsZone(SubSeq(s, zoneAt, n))
    IN  IF ok
        THEN [ok |-> TRUE,
              time |-> [hour |-> Num2(s, 12), minute |-> Num2(s, 15),
                        second |-> Num2(s, 18),
                        milli |-> IF hasFraction THEN FractionMillis(s, 21, digits) ELSE 0]]
        ELSE [ok |-> FALSE, time |-> NoTime]

Dec2(n) == <<Digit(n \div 10), Digit(n % 10)>>

Dec3(n) == <<Digit(n \div 100), Digit((n \div 10) % 10), Digit(n % 10)>>

\* the layout without the fraction of a second
FormatWholeSeconds(t) ==
    Dec2(t.hour) \o <<":">> \o Dec2(t.minute) \o <<":">> \o Dec2(t.second)

\* timestamp.Format("15:04:05.000")
FormatMillis(t) ==
    Dec2(t.hour) \o <<":">> \o Dec2(t.minute) \o <<":">> \o Dec2(t.second)
    \o <<".">> \o Dec3(t.milli)

\* timestamp.Format("15:04:05"), the alternate copy (src/main.go:398)
FormatSeconds(t) ==
    Dec2(t.hour) \o <<":">> \o Dec2(t.minute) \o <<":">> \o Dec2(t.second)

\* the readings time.Now() may return
Clock ==
    {[hour |-> 9, minute |-> 5, second |-> 7, milli |-> 42],
     [hour |-> 23, minute |-> 59, second |-> 59, milli |-> 999]}

(***************************************************************************)
(* strings.TrimSpace and strings.ToLower (src/main.go:196).                *)
(***************************************************************************)
IsSpace(b) == b \in {" ", "\t", "\n", "\r"}

RECURSIVE TrimLeft(_)
TrimLeft(s) == IF s # <<>> /\ IsSpace(Head(s)) THEN TrimLeft(Tail(s)) ELSE s

RECURSIVE TrimRight(_)
TrimRight(s) ==
    IF s # <<>> /\ IsSpace(s[Len(s)]) THEN TrimRight(SubSeq(s, 1, Len(s) - 1)) ELSE s

TrimSpace(s) == TrimRight(TrimLeft(s))

UpperLetters ==
    <<"A", "B", "C", "D", "E", "F", "G", "H", "I", "J", "K", "L", "M",
      "N", "O", "P", "Q", "R", "S", "T", "U", "V", "W", "X", "Y", "Z">>

LowerLetters ==
    <<"a", "b", "c", "d", "e", "f", "g", "h", "i", "j", "k", "l", "m",
      "n", "o", "p", "q", "r", "s", "t", "u", "v", "w", "x", "y", "z">>

ToLowerByte(b) ==
    IF \E i \in 1..26 : UpperLetters[i] = b
    THEN LowerLetters[CHOOSE i \in 1..26 : UpperLetters[i] = b]
    ELSE b

ToLower(s) == [i \in 1..Len(s) |-> ToLowerByte(s[i])]

(***************************************************************************)
(* Colours: color.New(attributes...) is the sequence of its attributes.    *)
(***************************************************************************)
\* src/main.go:195-208
getLevelColor(level) ==
    LET l == ToLower(TrimSpace(level))
    IN  CASE l = <<"e", "r", "r", "o", "r">> -> <<"FgRed", "Bold">>
          [] l = <<"w", "a", "r", "n">> \/ l = <<"w", "a", "r", "n", "i", "n", "g">> ->
                <<"FgYellow", "Bold">>
          [] l = <<"i", "n", "f", "o">> -> <<"FgBlue">>
          [] l = <<"d", "e", "b", "u", "g">> -> <<"FgWhite">>
          [] OTHER -> <<"FgWhite">>

\* src/main.go:425-438, the alternate copy: the level as it is
getLevelColorAlt(level) ==
    CASE level = <<"e", "r", "r", "o", "r">> -> <<"FgRed", "Bold">>
      [] level = <<"w", "a", "r", "n">> -> <<"FgYellow", "Bold">>
      [] level = <<"i", "n", "f", "o">> -> <<"FgBlue">>
      [] level = <<"d", "e", "b", "u", "g">> -> <<"FgWhite">>
      [] OTHER -> <<"FgWhite">>

\* src/main.go:210-223: the first case that matches
getStatusColor(status) ==
    IF status >= 200 /\ status < 300 THEN <<"FgGreen">>
    ELSE IF status >= 300 /\ status < 400 THEN <<"FgYellow">>
    ELSE IF status >= 400 /\ status < 500 THEN <<"FgRed">>
    ELSE IF status >= 500 THEN <<"FgRed", "Bold">>
    ELSE <<"FgWhite">>

(***************************************************************************)
(* fmt's "%v" of the value json.Unmarshal stores in an interface{}: a      *)
(* string prints as its bytes, a map as map[key:value ...] with its keys   *)
(* sorted, a slice as [a b].  The objects of this model list their members *)
(* with distinct keys in sorted order, which is then the printed order.    *)
(***************************************************************************)
RECURSIVE FormatValue(_)
RECURSIVE FormatMembers(_)
RECURSIVE FormatElements(_)
FormatValue(v) ==
    CASE v.t = "nil" -> <<"<", "n", "i", "l", ">">>
      [] v.t = "str" -> v.s
      [] v.t = "bool" -> IF v.b THEN <<"t", "r", "u", "e">> ELSE <<"f", "a", "l", "s", "e">>
      [] v.t = "num" -> IF v.int THEN Dec(v.n) ELSE Dec(v.n) \o <<".", "5">>
      [] v.t = "arr" -> <<"[">> \o FormatElements(v.a) \o <<"]">>
      [] v.t = "obj" -> <<"m", "a", "p", "[">> \o FormatMembers(v.kv) \o <<"]">>

FormatMembers(kv) ==
    IF kv = <<>> THEN <<>>
    ELSE Head(kv)[1] \o <<":">>
         \o (IF Head(kv)[2].t = "null" THEN FormatValue(Nil) ELSE FormatValue(Head(kv)[2]))
         \o (IF Len(kv) > 1 THEN <<" ">> ELSE <<>>) \o FormatMembers(Tail(kv))

FormatElements(a) ==
    IF a = <<>> THEN <<>>
    ELSE (IF Head(a).t = "null" THEN FormatValue(Nil) ELSE FormatValue(Head(a)))
         \o (IF Len(a) > 1 THEN <<" ">> ELSE <<>>) \o FormatElements(Tail(a))


(***************************************************************************)
(* What one pass of the loop writes to standard output: the template that  *)
(* produced it, its coloured pieces (name, colour attributes, text) and    *)
(* the bytes written when colours are off.                                 *)
(***************************************************************************)
Seg(field, attrs, text) == [field |-> field, attrs |-> attrs, text |-> text]

Written(tmpl, segs, text) == [tmpl |-> tmpl, segs |-> segs, text |-> text]

S_http == <<"h", "t", "t", "p">>

\* the check without its second half: every record of category "http"
isHTTPAccessLogAnyMethod(log) == log.Category = S_http

\* src/main.go:161  log.Category == "http" && log.HTTP.Request.Method != ""
isHTTPAccessLog(log) == log.Category = S_http /\ log.HTTP.Request.Method # <<>>

\* the user agent as it is, as the alternate copy prints it
truncateUserAgentNever(userAgent) == userAgent

\* src/main.go:163-166
truncateUserAgent(userAgent) ==
    IF Len(userAgent) > UserAgentLimit THEN Take(userAgent, UserAgentLimit) ELSE userAgent

\* src/main.go:169, 181  "%-4s" of log.Level[:min(4, len(log.Level))]
levelField(level) == PadRight(Take(level, Min(LevelWidth, Len(level))), LevelWidth)

\* src/main.go:173  "%dms" of log.Event.Duration/1000000
durationField(duration) == Dec(GoDiv(duration, NanosPerMilli)) \o <<"m", "s">>

\* the suffix with the empty string taken for no error
errorSuffixUnlessEmpty(log) ==
    IF log.Error # Nil /\ log.Error # JStr(<<>>)
    THEN <<Seg("error", <<"FgRed", "Bold">>,
               <<"e", "r", "r", "o", "r", "=">> \o FormatValue(log.Error))>>
    ELSE <<>>

\* src/main.go:186-189  the suffix of the generic template
errorSuffix(log) ==
    IF log.Error # Nil
    THEN <<Seg("error", <<"FgRed", "Bold">>,
               <<"e", "r", "r", "o", "r", "=">> \o FormatValue(log.Error))>>
    ELSE <<>>

\* src/main.go:144-193
printPrettyLog(log, now) ==
    LET parsed == ParseRFC3339(log.Timestamp)
        timestamp == IF parsed.ok THEN parsed.time ELSE now
        ts == Seg("timestamp", <<"FgCyan">>, FormatMillis(timestamp))
        level == Seg("level", getLevelColor(log.Level), levelField(log.Level))
        message == Seg("message", <<"FgWhite">>, log.Message)
    IN  IF isHTTPAccessLog(log)
        THEN LET method == Seg("method", <<"FgMagenta", "Bold">>,
                               PadRight(log.HTTP.Request.Method, MethodWidth))
                 status == Seg("status", getStatusColor(log.HTTP.Response.StatusCode),
                               Dec(log.HTTP.Response.StatusCode))
                 path == Seg("path", <<"FgGreen">>, log.URL.Path)
                 duration == Seg("duration", <<"FgYellow">>,
                                 durationField(log.Event.Duration))
                 ua == Seg("ua", <<"FgBlue">>,
                           <<"u", "a", "=">> \o truncateUserAgent(log.UserAgent.Original))
             IN  Written("http",
                         <<ts, level, method, status, path, duration, ua, message>>,
                         ts.text \o <<" ", "[">> \o level.text \o <<"]", " ">>
                         \o method.text \o <<" ">> \o status.text \o <<" ">>
                         \o path.text \o <<" ">> \o duration.text \o <<" ">>
                         \o ua.text \o <<" ">> \o message.text \o <<"\n">>)
        ELSE LET suffix == errorSuffix(log)
             IN  Written("generic",
                         <<ts, level, message>> \o suffix,
                         ts.text \o <<" ", "[">> \o level.text \o <<"]", " ">>
                         \o message.text
                         \o (IF suffix # <<>> THEN <<" ">> \o suffix[1].text ELSE <<>>)
                         \o <<"\n">>)

\* src/main.go:378-423, the alternate copy of printPrettyLog
printPrettyLogAlt(log, now) ==
    LET parsed == ParseRFC3339(log.Timestamp)
        timestamp == IF parsed.ok THEN parsed.time ELSE now
        ts == Seg("timestamp", <<"FgCyan">>, FormatSeconds(timestamp))
        level == Seg("level", getLevelColorAlt(log.Level), PadRight(log.Level, AltLevelWidth))
    IN  IF log.Category = S_http /\ log.HTTP.Request.Method # <<>>
        THEN LET method == Seg("method", <<"FgMagenta", "Bold">>,
                               PadRight(log.HTTP.Request.Method, MethodWidth))
                 status == Seg("status", getStatusColor(log.HTTP.Response.StatusCode),
                               Dec(log.HTTP.Response.StatusCode))
                 path == Seg("path", <<"FgGreen">>, log.URL.Path)
                 from == Seg("from", <<"FgWhite">>,
                             <<"f", "r", "o", "m", "=">> \o log.Source.IP)
                 duration == Seg("duration", <<"FgYellow">>,
                                 Dec(GoDiv(log.Event.Duration, AltDurationDivisor))
                                 \o <<"m", "s">>)
                 ua == Seg("ua", <<"FgBlue">>, <<"u", "a", "=">> \o log.UserAgent.Original)
             IN  Written("http",
                         <<ts, level, method, status, path, from, duration, ua>>,
                         ts.text \o <<" ", "[">> \o level.text \o <<"]", " ">>
                         \o method.text \o <<" ">> \o status.text \o <<" ">>
                         \o path.text \o <<" ">> \o from.text \o <<" ">>
                         \o duration.text \o <<" ">> \o ua.text \o <<"\n">>)
        ELSE LET message == Seg("message", <<"FgWhite">>, log.Message)
                 suffix == errorSuffix(log)
             IN  Written("generic",
                         <<ts, level, message>> \o suffix,
                         ts.text \o <<" ", "[">> \o level.text \o <<"]", " ">>
                         \o message.text
                         \o (IF suffix # <<>> THEN <<" ">> \o suffix[1].text ELSE <<>>)
                         \o <<"\n">>)

\* the cut with >= for >: a line of exactly 120 bytes gets the dots
passThroughFrom120(line) ==
    IF Len(line) >= LineLimit
    THEN Written("raw", <<>>, Take(line, LineLimit) \o <<".", ".", ".", "\n">>)
    ELSE Written("raw", <<>>, line \o <<"\n">>)

\* src/main.go:127-131  the line as it is, or its first 120 bytes and "..."
passThrough(line) ==
    IF Len(line) > LineLimit
    THEN Written("raw", <<>>, Take(line, LineLimit) \o <<".", ".", ".", "\n">>)
    ELSE Written("raw", <<>>, line \o <<"\n">>)


(***************************************************************************)
(* The inputs.  Strings the records and lines of the model are made of.    *)
(***************************************************************************)
S_info == <<"i", "n", "f", "o">>

S_error == <<"e", "r", "r", "o", "r">>

S_GET == <<"G", "E", "T">>

S_DELETE == <<"D", "E", "L", "E", "T", "E">>

S_started == <<"s", "t", "a", "r", "t", "e", "d">>

S_code == <<"c", "o", "d", "e">>

S_TIMEOUT == <<"T", "I", "M", "E", "O", "U", "T">>

S_path == <<"/", "a", "p", "i">>

S_ip == <<"1", "0", ".", "0", ".", "0", ".", "1">>

\* 2025-06-28T11:50:00.000Z
TS_valid == <<"2", "0", "2", "5", "-", "0", "6", "-", "2", "8", "T", "1", "1", ":", "5", "0", ":", "0", "0", ".", "0", "0", "0", "Z">>

\* 2025-06-28T23:59:59.987654+02:00
TS_offset == <<"2", "0", "2", "5", "-", "0", "6", "-", "2", "8", "T", "2", "3", ":", "5", "9", ":", "5", "9", ".", "9", "8", "7", "6", "5", "4", "+", "0", "2", ":", "0", "0">>

\* 2025-06-28 11:50:00: a date and a time, but not RFC3339
TS_invalid == <<"2", "0", "2", "5", "-", "0", "6", "-", "2", "8", " ", "1", "1", ":", "5", "0", ":", "0", "0">>

\* 2025-02-30T11:50:00Z: RFC3339 in shape, but no such day
TS_noSuchDay == <<"2", "0", "2", "5", "-", "0", "2", "-", "3", "0", "T", "1", "1", ":", "5", "0", ":", "0", "0", "Z">>

Timestamps == {<<>>, TS_valid, TS_offset, TS_invalid, TS_noSuchDay}

\* the empty level, levels shorter and longer than the field, a level with
\* upper case and spaces around it, and levels of one and of three two-byte
\* runes
Levels ==
    {<<>>, <<"i", "n", "f">>, S_info, S_error, <<" ", "W", "a", "r", "n", " ">>,
     <<"xC3", "xA9">>, <<"xC3", "xA9", "xC3", "xA9", "xC3", "xA9">>}

\* a message of two lines: "a\nb" in the JSON text, a, line feed, b once decoded
S_twoLines == <<"a", "\n", "b">>

Messages == {<<>>, S_started, S_twoLines}

Categories == {<<>>, S_http, <<"H", "T", "T", "P">>, <<"h", "t", "t", "p", " ">>}

Methods == {<<>>, S_GET, S_DELETE}

\* the codes of TestGetStatusColor, and the codes on both sides of every
\* comparison of getStatusColor
StatusCodes == {-1, 0, 199, 200, 299, 300, 301, 399, 400, 404, 499, 500, 599, 600}

Durations == {0, 999999, 1000000, 1250000000, -1500000}

\* user agents of 0, 4, 50, 51 and 60 bytes
UserAgents ==
    {<<>>, <<"c", "u", "r", "l">>,
     Take(Repeat(<<"a", "g", "e", "n", "t", "/", "1", ".", "0", " ">>, 6), UserAgentLimit),
     Take(Repeat(<<"a", "g", "e", "n", "t", "/", "1", ".", "0", " ">>, 6), UserAgentLimit + 1),
     Repeat(<<"a", "g", "e", "n", "t", "/", "1", ".", "0", " ">>, 6)}

\* what the decoder leaves in Error: nil (no key, or null), a string, the
\* empty string, a number, false, an object, the empty object
ErrorValues ==
    {Nil, JStr(S_TIMEOUT), JStr(<<>>), JNum(5), JBool(FALSE),
     JObj(<<<<S_code, JStr(S_TIMEOUT)>>>>), JObj(<<>>)}

\* the records printPrettyLog is applied to
Entry(ts, level, message, category, err, method, status, duration, ua) ==
    LET z == ZeroValue(LogEntryType)
    IN  [z EXCEPT !.Timestamp = ts, !.Level = level, !.Message = message,
                  !.Category = category, !.Error = err,
                  !.HTTP = [@ EXCEPT !.Request = [@ EXCEPT !.Method = method],
                                     !.Response = [@ EXCEPT !.StatusCode = status]],
                  !.Event = [@ EXCEPT !.Duration = duration],
                  !.URL = [@ EXCEPT !.Path = S_path],
                  !.Source = [@ EXCEPT !.IP = S_ip],
                  !.UserAgent = [@ EXCEPT !.Original = ua]]

\* every level, category, method and error value with each other; the
\* timestamps, status codes, durations and user agents one dimension at a time
Entries ==
    {Entry(TS_valid, l, m, c, e, h, 200, 1000000, <<"c", "u", "r", "l">>) :
        l \in Levels, m \in Messages, c \in Categories, e \in ErrorValues, h \in Methods}
    \cup {Entry(ts, S_info, S_started, c, Nil, S_GET, st, 0, <<>>) :
        ts \in Timestamps, c \in {<<>>, S_http}, st \in StatusCodes}
    \cup {Entry(TS_valid, l, S_started, c, Nil, S_GET, 200, d, ua) :
        l \in Levels, c \in {<<>>, S_http}, d \in Durations, ua \in UserAgents}

(***************************************************************************)
(* The lines standard input may carry.                                     *)
(***************************************************************************)
\* {"invalid": json}, the invalid line of TestLogEntryUnmarshal
L_invalid == <<"{", "\"", "i", "n", "v", "a", "l", "i", "d", "\"", ":", " ", "j", "s", "o", "n", "}">>

L_plain == <<"s", "t", "a", "r", "t", "i", "n", "g", " ", "u", "p">>

HTTPObject(category, method, duration, ua) ==
    JObj(<<<<K_at_timestamp, JStr(TS_valid)>>,
           <<K_log_level, JStr(S_info)>>,
           <<K_message, JStr(S_started)>>,
           <<K_category, JStr(category)>>,
           <<K_http, JObj(<<<<K_request, JObj(<<<<K_method, JStr(method)>>>>)>>,
                           <<K_response, JObj(<<<<K_status_code, JNum(200)>>>>)>>>>)>>,
           <<K_url, JObj(<<<<K_path, JStr(S_path)>>>>)>>,
           <<K_event, JObj(<<<<K_duration, JNum(duration)>>>>)>>,
           <<K_user_agent, JObj(<<<<K_original, JStr(ua)>>>>)>>>>)

\* lines that are not valid JSON: empty, short, of 120, 121 and 150 bytes,
\* and 61 two-byte runes (122 bytes)
TextLines ==
    {TextLine(<<>>), TextLine(L_plain), TextLine(L_invalid),
     TextLine(Repeat(<<"a", "b", "c">>, 40)),
     TextLine(Repeat(<<"a", "b", "c">>, 40) \o <<"d">>),
     TextLine(Repeat(<<"a", "b", "c">>, 50)),
     TextLine(Repeat(<<"xC3", "xA9">>, 61))}

\* valid JSON texts that are not objects
ScalarLines ==
    {JSONLine(JNull), JSONLine(JBool(TRUE)), JSONLine(JNum(42)),
     JSONLine(JStr(S_info)), JSONLine(JArr(<<JNum(1), JNum(2)>>))}

\* objects whose members all fit the fields they name
ObjectLines ==
    {JSONLine(JObj(<<>>)),
     JSONLine(JObj(<<<<<<"x">>, JNum(1)>>>>)),
     JSONLine(JObj(<<<<K_at_timestamp, JStr(TS_valid)>>, <<K_log_level, JStr(S_info)>>,
                     <<K_message, JStr(S_started)>>>>)),
     JSONLine(JObj(<<<<K_log_level, JStr(S_error)>>, <<K_message, JStr(S_started)>>,
                     <<K_error, JObj(<<<<S_code, JStr(S_TIMEOUT)>>>>)>>>>)),
     JSONLine(JObj(<<<<K_message, JStr(S_started)>>, <<K_error, JNull>>>>)),
     JSONLine(JObj(<<<<K_message, JNull>>, <<K_http, JNull>>, <<K_span, JNum(7)>>>>)),
     JSONLine(HTTPObject(S_http, S_GET, 1250000000, <<"c", "u", "r", "l">>)),
     JSONLine(HTTPObject(S_http, <<>>, 0, <<>>)),
     JSONLine(HTTPObject(S_info, S_GET, 0, <<>>)),
     JSONLine(JObj(<<<<K_message, JStr(S_twoLines)>>>>))}

\* objects with a member whose JSON type is not the type of its field: a
\* number for message, a string for http, a fraction for status_code, and
\* a number for message in a line of more than 120 bytes
MismatchLines ==
    {JSONLine(JObj(<<<<K_log_level, JStr(S_info)>>, <<K_message, JNum(5)>>>>)),
     JSONLine(JObj(<<<<K_message, JStr(S_started)>>, <<K_http, JStr(S_GET)>>>>)),
     JSONLine(JObj(<<<<K_message, JStr(S_started)>>,
                     <<K_http, JObj(<<<<K_response,
                          JObj(<<<<K_status_code, JFrac(200)>>>>)>>>>)>>>>)),
     JSONLine(JObj(<<<<K_message, JNum(5)>>,
                     <<<<"x">>, JStr(Repeat(<<"a">>, LineLimit))>>>>))}

Lines == TextLines \cup ScalarLines \cup ObjectLines \cup MismatchLines

(***************************************************************************)
(* The read loop of main (src/main.go:119-141).                            *)
(*   pc        "scan" at the head of the loop, "exited" after the process  *)
(*             has ended, "print"/"printed" when printPrettyLog is run on  *)
(*             its own                                                     *)
(*   consumed  the lines scanner.Scan has returned so far                  *)
(*   scanErr   scanner.Err(): "nil", or the error that ended the scan      *)
(*   tooLong   the length of the line the scanner refused, 0 if none       *)
(*   stdout    what was written to standard output, one element per pass   *)
(*   stderr    what was written to standard error                          *)
(*   exitCode  the exit status, -1 while the process runs                  *)
(*   logEntry  the record of the last pass (var logEntry LogEntry)         *)
(***************************************************************************)
Init ==
    /\ pc = "scan"
    /\ consumed = <<>>
    /\ scanErr = "nil"
    /\ tooLong = 0
    /\ stdout = <<>>
    /\ stderr = <<>>
    /\ exitCode = -1
    /\ logEntry = ZeroValue(LogEntryType)

\* a write that lands in front of what was written before
writeStdoutInFront(out, written) == <<written>> \o out

\* a read failure that goes unreported
reportReadErrorNowhere(errStream, err) == errStream

\* fmt.Printf and fmt.Println append to standard output (src/main.go:128-135)
writeStdout(out, written) == Append(out, written)

\* fmt.Fprintf(os.Stderr, "Error reading from stdin: %v\n", err) (src/main.go:139)
reportReadError(errStream, err) ==
    Append(errStream, [text |-> "Error reading from stdin", cause |-> err])

\* var logEntry LogEntry; json.Unmarshal([]byte(line), &logEntry), for every
\* line of the input (src/main.go:124-125)
Decoded == [line \in Lines |-> Unmarshal(line, ZeroValue(LogEntryType))]

\* what one pass over a line writes: src/main.go:122-135
processLine(line, now) ==
    IF Decoded[line].err THEN passThrough(line.text)
                         ELSE printPrettyLog(Decoded[line].val, now)

\* a pass of the loop over a line json.Unmarshal rejects
PassThroughLine ==
    \E line \in Lines, now \in Clock :
        /\ pc = "scan"
        /\ Len(consumed) < MaxLines
        /\ Decoded[line].err
        /\ consumed' = Append(consumed, line)
        /\ logEntry' = Decoded[line].val
        /\ stdout' = writeStdout(stdout, processLine(line, now))
        /\ UNCHANGED <<pc, scanErr, tooLong, stderr, exitCode>>

\* a pass of the loop over a line json.Unmarshal accepts
PrettyLine ==
    \E line \in Lines, now \in Clock :
        /\ pc = "scan"
        /\ Len(consumed) < MaxLines
        /\ ~Decoded[line].err
        /\ consumed' = Append(consumed, line)
        /\ logEntry' = Decoded[line].val
        /\ stdout' = writeStdout(stdout, processLine(line, now))
        /\ UNCHANGED <<pc, scanErr, tooLong, stderr, exitCode>>

\* scanner.Scan() returns false at the end of the input, scanner.Err() is
\* nil and main returns
EndOfInput ==
    /\ pc = "scan"
    /\ pc' = "exited"
    /\ exitCode' = 0
    /\ UNCHANGED <<consumed, scanErr, tooLong, stdout, stderr, logEntry>>

\* scanner.Scan() returns false because reading the input failed:
\* src/main.go:138-141
ReadFailure ==
    /\ pc = "scan"
    /\ pc' = "exited"
    /\ scanErr' = "read error"
    /\ stderr' = reportReadError(stderr, scanErr')
    /\ exitCode' = 1
    /\ UNCHANGED <<consumed, tooLong, stdout, logEntry>>

\* the next line of the input has n bytes and does not fit the buffer of
\* bufio.NewScanner (src/main.go:119): scanner.Scan() returns false,
\* scanner.Err() is bufio.ErrTooLong, and main reports it as a failure to read
\* (src/main.go:138-141)
TokenTooLong ==
    \E n \in {MaxScanTokenSize, MaxScanTokenSize + 1} :
        /\ pc = "scan"
        /\ n >= MaxScanTokenSize
        /\ pc' = "exited"
        /\ tooLong' = n
        /\ scanErr' = "token too long"
        /\ stderr' = reportReadError(stderr, scanErr')
        /\ exitCode' = 1
        /\ UNCHANGED <<consumed, stdout, logEntry>>

Next == PassThroughLine \/ PrettyLine \/ EndOfInput \/ ReadFailure \/ TokenTooLong

Spec == Init /\ [][Next]_vars

(***************************************************************************)
(* printPrettyLog on its own, on every record of Entries.                  *)
(***************************************************************************)
FmtInit ==
    /\ pc = "print"
    /\ consumed = <<>>
    /\ scanErr = "nil"
    /\ tooLong = 0
    /\ stdout = <<>>
    /\ stderr = <<>>
    /\ exitCode = -1
    /\ logEntry \in Entries

RunPrintPrettyLog ==
    \E now \in Clock :
        /\ pc = "print"
        /\ pc' = "printed"
        /\ stdout' = writeStdout(stdout, printPrettyLog(logEntry, now))
        /\ UNCHANGED <<consumed, scanErr, tooLong, stderr, exitCode, logEntry>>

RunPrintPrettyLogAlt ==
    \E now \in Clock :
        /\ pc = "print"
        /\ pc' = "printedAlt"
        /\ stdout' = writeStdout(stdout, printPrettyLogAlt(logEntry, now))
        /\ UNCHANGED <<consumed, scanErr, tooLong, stderr, exitCode, logEntry>>

FmtNext == RunPrintPrettyLog \/ RunPrintPrettyLogAlt

FmtSpec == FmtInit /\ [][FmtNext]_vars


(***************************************************************************)
(* The properties.                                                         *)
(***************************************************************************)
FieldsOf(w) == [i \in 1..Len(w.segs) |-> w.segs[i].field]

HasSeg(w, field) == \E i \in 1..Len(w.segs) : w.segs[i].field = field

SegText(w, field) == w.segs[CHOOSE i \in 1..Len(w.segs) : w.segs[i].field = field].text

IsPrefix(p, s) == Len(p) <= Len(s) /\ \A i \in 1..Len(p) : p[i] = s[i]

Spaces(n) == [i \in 1..n |-> " "]

\* the record printPrettyLog (src/main.go:144) was run on, and what it wrote
Printed == pc = "printed"

HTTPFields == <<"timestamp", "level", "method", "status", "path", "duration", "ua", "message">>

\* C1: printPrettyLog writes the HTTP-access template (timestamp, level,
\* method, status, path, duration, user agent, message) exactly when the
\* category is the four bytes "http" and the method is not empty, and the
\* generic template (timestamp, level, message, optional error) in every
\* other case; it writes nothing else.
C1_Classification ==
    Printed =>
        LET w == stdout[1]
            http == logEntry.Category = <<"h", "t", "t", "p">>
                    /\ Len(logEntry.HTTP.Request.Method) > 0
        IN  /\ Len(stdout) = 1
            /\ http => w.tmpl = "http" /\ FieldsOf(w) = HTTPFields
            /\ ~http => /\ w.tmpl = "generic"
                        /\ FieldsOf(w) \in {<<"timestamp", "level", "message">>,
                                            <<"timestamp", "level", "message", "error">>}

\* C1 witness: an HTTP record printed with the HTTP template
C1_Witness ==
    /\ Printed
    /\ logEntry.Category = S_http
    /\ logEntry.HTTP.Request.Method = S_GET
    /\ stdout[1].tmpl = "http"

\* the passes of the loop whose line json.Unmarshal rejected
Rejected(i) == Decoded[consumed[i]].err

\* C2: a line json.Unmarshal rejects is written as it is when it has at
\* most 120 bytes, and as its first 120 bytes followed by "..." (123 bytes)
\* when it has more, in both cases followed by the newline; nothing of the
\* formatter (no coloured piece) is written for it.  Lengths are counted
\* as len() counts them, in bytes.
C2_PassThrough ==
    \A i \in 1..Len(stdout) :
        Rejected(i) =>
            LET line == consumed[i].text
                out == stdout[i].text
            IN  /\ stdout[i].segs = <<>>
                /\ Len(line) <= 120 => out = line \o <<"\n">>
                /\ Len(line) > 120 =>
                      /\ Len(out) = 124
                      /\ \A k \in 1..120 : out[k] = line[k]
                      /\ SubSeq(out, 121, 124) = <<".", ".", ".", "\n">>

\* C2 witness: a rejected line of exactly 120 bytes written whole, then a
\* rejected line of more than 120 bytes written cut
C2_Witness ==
    /\ Len(stdout) = 2
    /\ Rejected(1) /\ Len(consumed[1].text) = 120 /\ Len(stdout[1].text) = 121
    /\ Rejected(2) /\ Len(consumed[2].text) > 120 /\ Len(stdout[2].text) = 124

\* what the program may write for a line: its rendering at some reading of
\* the clock
Renderings == [line \in Lines |-> {processLine(line, now) : now \in Clock}]

IsObjectLine(line) == line.valid /\ line.json.t = "obj"

\* C4, as claimed: every line that is a syntactically valid JSON object is
\* handed to the formatter (never passed through), also when a known field
\* has a mismatching JSON type.
C4_ObjectsAreFormatted ==
    \A i \in 1..Len(stdout) :
        IsObjectLine(consumed[i]) => stdout[i].tmpl \in {"http", "generic"}

\* C5, as claimed: every line that is not a JSON object (text, the empty
\* line, null, true, a number, a string, an array) is passed through and
\* never rendered with a template.
C5_NonObjectsPassThrough ==
    \A i \in 1..Len(stdout) :
        ~IsObjectLine(consumed[i]) => stdout[i].tmpl = "raw"

\* the output of either copy of printPrettyLog
PrintedByAnyCopy == pc \in {"printed", "printedAlt"}

\* the quotient of d by 1,000,000 truncated toward zero: the integer q with
\* d = q * 1000000 + r, |r| < 1000000 and r of the sign of d (written
\* as bounds on d, so that no intermediate value leaves 32 bits)
IsMillisOf(q, d) ==
    IF d >= 0 THEN q >= 0 /\ q * 1000000 <= d /\ d < (q + 1) * 1000000
              ELSE q <= 0 /\ (q - 1) * 1000000 < d /\ d <= q * 1000000

\* C6, as claimed: in the HTTP-access template (src/main.go:167-176 and its
\* alternate copy, src/main.go:397-406) the duration is written as the
\* integer quotient of event.duration by 1,000,000 followed by "ms".
C6_DurationInMillis ==
    (PrintedByAnyCopy /\ stdout[1].tmpl = "http") =>
        \E q \in -2000..2000 :
            /\ IsMillisOf(q, logEntry.Event.Duration)
            /\ SegText(stdout[1], "duration") = Dec(q) \o <<"m", "s">>

\* C7: in the HTTP-access template the bytes after "ua=" are the user agent
\* itself when it has at most 50 bytes and its first 50 bytes when it has
\* more: never more than 50 bytes, always a prefix of user_agent.original.
C7_UserAgent ==
    (Printed /\ stdout[1].tmpl = "http") =>
        LET ua == logEntry.UserAgent.Original
            seg == SegText(stdout[1], "ua")
            shown == SubSeq(seg, 4, Len(seg))
        IN  /\ SubSeq(seg, 1, 3) = <<"u", "a", "=">>
            /\ Len(shown) = (IF Len(ua) <= 50 THEN Len(ua) ELSE 50)
            /\ IsPrefix(shown, ua)

\* C7 witness: a user agent of more than 50 bytes shown as its first 50
C7_Witness ==
    /\ Printed
    /\ stdout[1].tmpl = "http"
    /\ Len(logEntry.UserAgent.Original) > 50
    /\ Len(SegText(stdout[1], "ua")) = 53

\* the first n runes of s
TakeRunes(s, n) ==
    LET ends == {k \in 0..Len(s) :
                    /\ RuneCountInString(Take(s, k)) <= n
                    /\ (k < Len(s) => RuneCountInString(Take(s, k + 1))
                                        > RuneCountInString(Take(s, k)))}
    IN  Take(s, CHOOSE k \in ends : \A j \in ends : j <= k)

\* the level field as claimed, with characters read as bytes
LevelFieldByBytes(level) ==
    IF Len(level) >= 4 THEN Take(level, 4) ELSE level \o Spaces(4 - Len(level))

\* the level field as claimed, with characters read as runes
LevelFieldByRunes(level) ==
    IF RuneCountInString(level) >= 4 THEN TakeRunes(level, 4)
    ELSE level \o Spaces(4 - RuneCountInString(level))

\* C8, as claimed: between "[" and "]" stand the first 4 characters of the
\* level when it has 4 or more, and the whole level right-padded with
\* spaces to width 4 when it has fewer (whether a character is a byte or a
\* rune).
C8_LevelField ==
    Printed =>
        \/ SegText(stdout[1], "level") = LevelFieldByBytes(logEntry.Level)
        \/ SegText(stdout[1], "level") = LevelFieldByRunes(logEntry.Level)

\* C9: a generic record is written as "<timestamp> [<level>] <message>",
\* followed by " error=" and the printed value exactly when the decoded
\* error is not nil (whatever its value: object, string, number, false, the
\* empty string, the empty object), and then the newline; the HTTP-access
\* template has no error piece.
C9_ErrorSuffix ==
    Printed =>
        LET w == stdout[1]
        IN  /\ w.tmpl = "http" => ~HasSeg(w, "error")
            /\ w.tmpl = "generic" =>
                  /\ HasSeg(w, "error") <=> logEntry.Error # Nil
                  /\ w.text = SegText(w, "timestamp") \o <<" ", "[">>
                              \o SegText(w, "level") \o <<"]", " ">> \o logEntry.Message
                              \o (IF logEntry.Error = Nil THEN <<>>
                                  ELSE <<" ", "e", "r", "r", "o", "r", "=">>
                                       \o FormatValue(logEntry.Error))
                              \o <<"\n">>

\* C9 witness: a generic record whose error is the empty string, written
\* with the suffix " error="
C9_Witness ==
    /\ Printed
    /\ stdout[1].tmpl = "generic"
    /\ logEntry.Error = JStr(<<>>)
    /\ HasSeg(stdout[1], "error")
    /\ SegText(stdout[1], "error") = <<"e", "r", "r", "o", "r", "=">>

\* C10: when reading the input fails the loop has stopped, the failure is
\* reported once on the error stream and the exit status is not 0; the
\* output holds the lines written for the lines read before, in order, and
\* none for the failed read.
C10_ReadFailure ==
    scanErr # "nil" =>
        /\ pc = "exited"
        /\ exitCode > 0
        /\ stderr = <<[text |-> "Error reading from stdin", cause |-> scanErr]>>
        /\ Len(stdout) = Len(consumed)
        /\ \A k \in 1..Len(consumed) : stdout[k] \in Renderings[consumed[k]]

\* C10 witness: a read failure after two lines were read and written
C10_Witness ==
    /\ scanErr = "read error"
    /\ exitCode = 1
    /\ Len(consumed) = 2
    /\ Len(stdout) = 2

\* C11: when the input ends without a failure to read it, the process has
\* exited with status 0 and has written the output of every line of the input;
\* no line of the input makes it exit with another status or stop early.
C11_CleanStreamExitsZero ==
    (pc = "exited" /\ scanErr # "read error") =>
        /\ exitCode = 0
        /\ tooLong = 0
        /\ stderr = <<>>
        /\ Len(stdout) = Len(consumed)

\* the text is the reading t in the form HH:MM:SS.mmm
IsClockText(text, t) ==
    text = << Digit(t.hour \div 10), Digit(t.hour % 10), ":",
              Digit(t.minute \div 10), Digit(t.minute % 10), ":",
              Digit(t.second \div 10), Digit(t.second % 10), ".",
              Digit(t.milli \div 100), Digit((t.milli \div 10) % 10),
              Digit(t.milli % 10) >>

\* the text is the time of day written in the RFC3339 string ts, with the
\* first three digits of its fraction of a second (zeros where it has fewer)
IsTimeOfDayOf(text, ts) ==
    LET digits == IF ts[20] = "." THEN DigitRun(ts, 21) ELSE 0
    IN  /\ Len(text) = 12
        /\ SubSeq(text, 1, 8) = SubSeq(ts, 12, 19)
        /\ text[9] = "."
        /\ \A k \in 1..3 : text[9 + k] = IF k <= digits THEN ts[20 + k] ELSE "0"

C12_WitnessParsed ==
    /\ Printed
    /\ logEntry.Timestamp = TS_offset
    /\ IsPrefix(<<"2", "3", ":", "5", "9", ":", "5", "9", ".", "9", "8", "7", " ">>,
                stdout[1].text)

\* C13: for every decoded record the formatter writes exactly one line of
\* text: its output holds exactly one newline character and that character is
\* its last, whatever the message, path, method, user agent, level or error
\* value contain.
C13_ExactlyOneNewline ==
    Printed =>
        LET text == stdout[1].text
        IN  /\ Len(stdout) = 1
            /\ text # <<>>
            /\ text[Len(text)] = "\n"
            /\ \A i \in 1..(Len(text) - 1) : text[i] # "\n"

\* C14: the rendering of an HTTP access record holds the method, the status
\* code, the path, the source address as from=<source.ip>, the duration and
\* the user agent of the record.
C14_HTTPRendering ==
    (Printed /\ stdout[1].tmpl = "http") =>
        LET w == stdout[1]
        IN  /\ HasSeg(w, "method")
            /\ IsPrefix(logEntry.HTTP.Request.Method, SegText(w, "method"))
            /\ HasSeg(w, "status")
            /\ SegText(w, "status") = Dec(logEntry.HTTP.Response.StatusCode)
            /\ HasSeg(w, "path")
            /\ SegText(w, "path") = logEntry.URL.Path
            /\ HasSeg(w, "from")
            /\ SegText(w, "from") = <<"f", "r", "o", "m", "=">> \o logEntry.Source.IP
            /\ HasSeg(w, "duration")
            /\ HasSeg(w, "ua")
            /\ IsPrefix(<<"u", "a", "=">>, SegText(w, "ua"))

\* the colour attributes of a piece of the written line
SegAttrs(w, field) == w.segs[CHOOSE i \in 1..Len(w.segs) : w.segs[i].field = field].attrs

\* C15: getStatusColor gives 200..299 the success colour, 300..399 the
\* caution colour, 400..499 the alert colour without bold, 500..599 the alert
\* colour in bold, and every other code (0, negative, 1..199, 600 and above)
\* the neutral colour.
C15_StatusColor ==
    (Printed /\ stdout[1].tmpl = "http") =>
        LET status == logEntry.HTTP.Response.StatusCode
        IN  /\ HasSeg(stdout[1], "status")
            /\ SegAttrs(stdout[1], "status") =
                   CASE status \in 200..299 -> <<"FgGreen">>
                     [] status \in 300..399 -> <<"FgYellow">>
                     [] status \in 400..499 -> <<"FgRed">>
                     [] status \in 500..599 -> <<"FgRed", "Bold">>
                     [] OTHER -> <<"FgWhite">>

\* C16: once the loop runs, the process ends abnormally only when reading
\* the input fails: a line of any length and content is processed, one
\* written line per line read, and the loop goes on to the next read.
C16_OnlyReadFailureEndsAbnormally ==
    /\ Len(stdout) = Len(consumed)
    /\ pc = "scan" => (exitCode = -1 /\ scanErr = "nil")
    /\ (pc = "exited" /\ exitCode # 0) => (scanErr = "read error" /\ tooLong = 0)

====
